---------------------------- MODULE Spec2Model ----------------------------
(***************************************************************************)
(* A model of the numeric engine of nzthermo: the fixed-point root finder, *)
(* the two-stage ODE stepper, the monotonic profile search/interpolation   *)
(* helpers (src/src/lib/functional.cpp, src/src/nzthermo/_ufunc.pyx) and   *)
(* the elementwise ufunc kernels of _ufunc.pyx, and the LCL solvers of     *)
(* namespace nzt (lcl_solver, lcl_pressure, lcl).                          *)
(*                                                                         *)
(* Floating values are modelled as exact extended rationals <<n, d>>:      *)
(* d > 0 is the number n/d in lowest terms, <<0,0>> is NaN, <<1,0>> and    *)
(* <<-1,0>> are +inf and -inf.  Rounding, overflow to infinity and the     *)
(* sign of zero are not modelled.  The values libm's exp, log and pow      *)
(* take at ordinary finite arguments are left open: each is one of a few   *)
(* values of the function's range, fixed per argument for a whole run;     *)
(* their values at the IEEE-754 special arguments are exact.               *)
(***************************************************************************)
EXTENDS Integers, Sequences, FiniteSets, TLC

VARIABLES pc, fp, rk, ss, dsp, lc

vars == <<pc, fp, rk, ss, dsp, lc>>

-----------------------------------------------------------------------------
(* Bounds of the model. *)

MaxIters == 3
MaxAbs == 2
MaxLen == 4
MaxN == 2
MaxLclIters == 2

-----------------------------------------------------------------------------
(* Extended rational arithmetic (IEEE-754 special values, exact otherwise). *)

NaN == <<0, 0>>
PosInf == <<1, 0>>
NegInf == <<-1, 0>>

AbsInt(n) == IF n < 0 THEN -n ELSE n
SignInt(n) == IF n < 0 THEN -1 ELSE IF n > 0 THEN 1 ELSE 0

RECURSIVE GCD(_, _)
GCD(a, b) == IF b = 0 THEN a ELSE GCD(b, a % b)

Norm(n, d) ==
    IF d = 0 THEN <<SignInt(n), 0>>
    ELSE LET g == GCD(AbsInt(n), AbsInt(d))
             s == SignInt(d)
         IN  <<(s * n) \div g, (s * d) \div g>>

Rat(n, d) == Norm(n, d)
Num(n) == <<n, 1>>
Zero == <<0, 1>>

IsNaN(a) == a = NaN
IsFinite(a) == a[2] # 0

Neg(a) == <<-a[1], a[2]>>
Abs(a) == <<AbsInt(a[1]), a[2]>>

Add(a, b) ==
    IF IsNaN(a) \/ IsNaN(b) THEN NaN
    ELSE IF ~IsFinite(a) /\ ~IsFinite(b) THEN (IF a = b THEN a ELSE NaN)
    ELSE IF ~IsFinite(a) THEN a
    ELSE IF ~IsFinite(b) THEN b
    ELSE LET g == GCD(a[2], b[2])
         IN  Norm(a[1] * (b[2] \div g) + b[1] * (a[2] \div g),
                  a[2] * (b[2] \div g))

Sub(a, b) == Add(a, Neg(b))

Mul(a, b) ==
    LET g1 == GCD(AbsInt(a[1]), AbsInt(b[2]))
        g2 == GCD(AbsInt(b[1]), AbsInt(a[2]))
        h1 == IF g1 = 0 THEN 1 ELSE g1
        h2 == IF g2 = 0 THEN 1 ELSE g2
    IN  Norm((a[1] \div h1) * (b[1] \div h2), (a[2] \div h2) * (b[2] \div h1))

Recip(a) == Norm(a[2] * (IF a[1] < 0 THEN -1 ELSE 1), AbsInt(a[1]))

Div(a, b) == Mul(a, Recip(b))

(* Ordered comparisons are false as soon as one side is NaN. *)
Lt(a, b) ==
    IF IsNaN(a) \/ IsNaN(b) THEN FALSE
    ELSE IF a = b THEN FALSE
    ELSE IF a = NegInf \/ b = PosInf THEN TRUE
    ELSE IF a = PosInf \/ b = NegInf THEN FALSE
    ELSE a[1] * b[2] < b[1] * a[2]

Gt(a, b) == Lt(b, a)
Le(a, b) == ~IsNaN(a) /\ ~IsNaN(b) /\ (a = b \/ Lt(a, b))
Ge(a, b) == Le(b, a)

(* C truthiness of a floating value: anything but zero, NaN included. *)
Truthy(a) == a # Zero

(* ceil of a finite value, as an integer. *)
CeilInt(a) == -((-a[1]) \div a[2])
FloorInt(a) == a[1] \div a[2]


-----------------------------------------------------------------------------
(* RootFinder: fixed_point.                                                 *)
(*                                                                          *)
(* The update function is a value of a small family of maps; every member   *)
(* receives the current estimate and the initial estimate x0, as the code    *)
(* passes fn(p0, x0, args...).                                              *)

EpsChoices == {Num(-1), Zero, Rat(1, 10), Rat(1, 2), Num(2), NaN}

X0Choices == {Num(n) : n \in -MaxAbs .. MaxAbs} \cup {NaN}

UpdateFns ==
    [kind : {"affine"}, a : {-1, 0, 1, 2}, b : -MaxAbs .. MaxAbs]
    \cup [kind : {"step"}, a : {0, 1}, b : -1 .. 1, c : -1 .. 1]
    \cup [kind : {"relax"}]
    \cup [kind : {"nan"}]

(* fn(p, x0): affine a*p + b; step (p < a ? b : c); relax (p + x0)/2; nan. *)
Apply(fn, p, x0) ==
    CASE fn.kind = "affine" -> Add(Mul(Num(fn.a), p), Num(fn.b))
      [] fn.kind = "step" -> IF Lt(p, Num(fn.a)) THEN Num(fn.b) ELSE Num(fn.c)
      [] fn.kind = "relax" -> Div(Add(p, x0), Num(2))
      [] fn.kind = "nan" -> NaN

(* for (size_t i = 0; i < max_iters; i++) *)
FixedPointLoopCondOffByOne(i, max_iters) == i <= max_iters
FixedPointLoopCond(i, max_iters) == i < max_iters

(* delta = p2 - 2.0 * p1 + p0 *)
SecondDifference(p0, p1, p2) == Add(Sub(p2, Mul(Num(2), p1)), p0)

(* if (delta) p2 = p0 - pow(p1 - p0, 2) / delta *)
Accelerate(p0, p1, p2) ==
    LET delta == SecondDifference(p0, p1, p2)
    IN  IF Truthy(delta)
        THEN Sub(p0, Div(Mul(Sub(p1, p0), Sub(p1, p0)), delta))
        ELSE p2

(* err = p2; if (p0) err = fabs((p2 - p0) / p0) *)
FixedPointErr(p0, p2) ==
    IF Truthy(p0) THEN Abs(Div(Sub(p2, p0), p0)) ELSE p2

(* if (err < eps) return p2 *)
Converged(err, eps) == Lt(err, eps)

FpIdle == [status |-> "idle"]

CallFixedPoint ==
    /\ pc = "idle"
    /\ \E fn \in UpdateFns, max_iters \in 0 .. MaxIters,
          eps \in EpsChoices, x0 \in X0Choices :
          fp' = [status |-> "running", fn |-> fn, max_iters |-> max_iters,
                 eps |-> eps, x0 |-> x0, p0 |-> x0, i |-> 0, evals |-> 0,
                 iters |-> 0, iterated |-> FALSE, itP0 |-> NaN,
                 itP2 |-> NaN, ret |-> NaN]
    /\ pc' = "fixed_point"
    /\ UNCHANGED <<rk, ss, dsp, lc>>

(* One pass through the loop body: two evaluations of fn, the accelerated   *)
(* estimate, the convergence test, and either the return or p0 = p2, i++.   *)
FixedPointIterate ==
    /\ pc = "fixed_point"
    /\ FixedPointLoopCond(fp.i, fp.max_iters)
    /\ LET p1 == Apply(fp.fn, fp.p0, fp.x0)
           q2 == Apply(fp.fn, p1, fp.x0)
           p2 == Accelerate(fp.p0, p1, q2)
           err == FixedPointErr(fp.p0, p2)
       IN  IF Converged(err, fp.eps)
           THEN /\ fp' = [fp EXCEPT !.status = "converged", !.ret = p2,
                                    !.evals = @ + 2, !.iters = @ + 1,
                                    !.iterated = TRUE,
                                    !.itP0 = fp.p0, !.itP2 = p2]
                /\ pc' = "done"
           ELSE /\ fp' = [fp EXCEPT !.p0 = p2, !.i = @ + 1,
                                    !.evals = @ + 2, !.iters = @ + 1,
                                    !.iterated = TRUE,
                                    !.itP0 = fp.p0, !.itP2 = p2]
                /\ pc' = "fixed_point"
    /\ UNCHANGED <<rk, ss, dsp, lc>>

(* The loop condition fails: return NAN. *)
FixedPointExhaust ==
    /\ pc = "fixed_point"
    /\ ~FixedPointLoopCond(fp.i, fp.max_iters)
    /\ fp' = [fp EXCEPT !.status = "exhausted", !.ret = NaN]
    /\ pc' = "done"
    /\ UNCHANGED <<rk, ss, dsp, lc>>

-----------------------------------------------------------------------------
(* OdeStepper: rk2.                                                         *)

StepChoices == {Num(1), Rat(3, 2), Num(2), Num(5)}

XChoices == {Num(n) : n \in -MaxAbs .. MaxAbs}

YChoices == {Num(n) : n \in -1 .. 1}

RateFns ==
    [kind : {"const"}, c : -1 .. 1]
    \cup [kind : {"x", "y", "nan"}]

(* fn(x, y): a constant, x, y, or NaN. *)
ApplyRate(fn, x, y) ==
    CASE fn.kind = "const" -> Num(fn.c)
      [] fn.kind = "x" -> x
      [] fn.kind = "y" -> y
      [] fn.kind = "nan" -> NaN

(* if (abs_delta > step) N = (size_t)ceil(abs_delta / step); else N = 1 *)
Rk2SubstepsTruncated(abs_delta, step) ==
    IF Gt(abs_delta, step) THEN FloorInt(Div(abs_delta, step)) ELSE 1
Rk2Substeps(abs_delta, step) ==
    IF Gt(abs_delta, step) THEN CeilInt(Div(abs_delta, step)) ELSE 1

(* delta = x1 - x0; if (abs_delta > step) delta = delta / (T)N *)
Rk2Delta(x0, x1, step) ==
    LET delta == Sub(x1, x0)
    IN  IF Gt(Abs(delta), step)
        THEN Div(delta, Num(Rk2Substeps(Abs(delta), step)))
        ELSE delta

(* The argument of the second evaluation: (x0 + delta * 0.5, y + k1 * 0.5) *)
Rk2Midpoint(x, y, delta, k1) ==
    <<Add(x, Mul(delta, Rat(1, 2))), Add(y, Mul(k1, Rat(1, 2)))>>

RkIdle == [status |-> "idle"]

CallRk2 ==
    /\ pc = "idle"
    /\ \E fn \in RateFns, x0 \in XChoices, x1 \in XChoices,
          y \in YChoices, step \in StepChoices :
          rk' = [status |-> "running", fn |-> fn, x0 |-> x0, x1 |-> x1,
                 y0 |-> y, step |-> step,
                 N |-> Rk2Substeps(Abs(Sub(x1, x0)), step),
                 delta |-> Rk2Delta(x0, x1, step),
                 i |-> 0, x |-> x0, y |-> y, evals |-> <<>>,
                 prev |-> <<x0, y>>]
    /\ pc' = "rk2"
    /\ UNCHANGED <<fp, ss, dsp, lc>>

(* One substep: two evaluations of fn, y and x0 advanced. *)
Rk2Substep ==
    /\ pc = "rk2"
    /\ rk.i < rk.N
    /\ LET at1 == <<rk.x, rk.y>>
           k1 == Mul(rk.delta, ApplyRate(rk.fn, at1[1], at1[2]))
           at2 == Rk2Midpoint(rk.x, rk.y, rk.delta, k1)
           y2 == Add(rk.y, Mul(rk.delta, ApplyRate(rk.fn, at2[1], at2[2])))
       IN  rk' = [rk EXCEPT !.y = y2, !.x = Add(rk.x, rk.delta),
                            !.i = @ + 1,
                            !.evals = @ \o <<at1, at2>>,
                            !.prev = <<rk.x, rk.y>>]
    /\ pc' = "rk2"
    /\ UNCHANGED <<fp, ss, dsp, lc>>

(* The loop condition fails: return y. *)
Rk2Return ==
    /\ pc = "rk2"
    /\ ~(rk.i < rk.N)
    /\ rk' = [rk EXCEPT !.status = "returned"]
    /\ pc' = "done"
    /\ UNCHANGED <<fp, ss, dsp, lc>>

-----------------------------------------------------------------------------
(* MonotonicSearch: monotonic, lower_bound, upper_bound, search_sorted,     *)
(* interpolate_z.  Arrays are sequences; At reads the C index i.            *)

ElemChoices == {Num(0), Num(1), Num(2), NaN}

ValueChoices == {Num(-1), Num(0), Rat(1, 2), Num(1), Num(2), Num(3), NaN}

Arrays(lo, hi) == UNION {[1 .. n -> ElemChoices] : n \in lo .. hi}

At(array, i) == array[i + 1]

(* if (x[i] < x[i - 1]) return false;  resp.  if (x[i] > x[i - 1]) *)
MonotonicViolatesNonStrict(x, i, direction) ==
    IF direction = "increasing"
    THEN Le(At(x, i), At(x, i - 1))
    ELSE Ge(At(x, i), At(x, i - 1))
MonotonicViolates(x, i, direction) ==
    IF direction = "increasing"
    THEN Lt(At(x, i), At(x, i - 1))
    ELSE Gt(At(x, i), At(x, i - 1))

(* for (size_t i = 1; i < size; i++) ... return true *)
RECURSIVE MonotonicFrom(_, _, _, _)
MonotonicFrom(x, size, direction, i) ==
    IF ~(i < size) THEN TRUE
    ELSE IF MonotonicViolates(x, i, direction) THEN FALSE
    ELSE MonotonicFrom(x, size, direction, i + 1)

monotonic(x, size, direction) == MonotonicFrom(x, size, direction, 1)

(* std::greater_equal() and std::less_equal() *)
Cmp(cmp, a, b) ==
    CASE cmp = "greater_equal" -> Ge(a, b)
      [] cmp = "less_equal" -> Le(a, b)
      [] cmp = "greater" -> Gt(a, b)
      [] cmp = "less" -> Lt(a, b)

(* The comparison policies a caller can hand to lower_bound / upper_bound. *)
Comparators == {"greater_equal", "less_equal", "greater", "less"}

(* The position the loop body reads: array[idx + half - 1] *)
Probe(idx, half) == idx + half - 1

(* A lower_bound whose step overshoots the half it has just examined. *)
LowerBoundAdvanceOvershoot(array, idx, half, value, cmp) ==
    IF Cmp(cmp, At(array, Probe(idx, half)), value) THEN half + 1 ELSE 0

(* lower_bound: idx += cmp(array[idx + half - 1], value) * half *)
LowerBoundAdvance(array, idx, half, value, cmp) ==
    IF Cmp(cmp, At(array, Probe(idx, half)), value) THEN half ELSE 0

(* upper_bound: idx += !cmp(value, array[idx + half - 1]) * half *)
UpperBoundAdvance(array, idx, half, value, cmp) ==
    IF ~Cmp(cmp, value, At(array, Probe(idx, half))) THEN half ELSE 0

(* y0 + (x - x0) * (y1 - y0) / (x1 - x0) *)
linear_interpolate(x, x0, x1, y0, y1) ==
    Add(y0, Div(Mul(Sub(x, x0), Sub(y1, y0)), Sub(x1, x0)))

(* The sample columns fp offered with a profile of n knots. *)
FpChoices(n) ==
    {[k \in 1 .. n |-> Num(k - 1)], [k \in 1 .. n |-> Num(3 - 2 * k)]}

SsIdle == [status |-> "idle"]

CallMonotonic ==
    /\ pc = "idle"
    /\ \E x \in Arrays(0, MaxLen), direction \in {"increasing", "decreasing"} :
          ss' = [status |-> "returned", call |-> "monotonic", x |-> x,
                 direction |-> direction,
                 ret |-> monotonic(x, Len(x), direction)]
    /\ pc' = "done"
    /\ UNCHANGED <<fp, rk, dsp, lc>>

(* search_sorted: lower_bound with greater_equal when inverted, else        *)
(* upper_bound with less_equal.                                             *)
CallSearchSorted ==
    /\ pc = "idle"
    /\ \E x \in Arrays(0, MaxLen), value \in ValueChoices,
          inverted \in BOOLEAN :
          ss' = [status |-> "running", call |-> "search_sorted", x |-> x,
                 value |-> value, inverted |-> inverted,
                 bound |-> IF inverted THEN "lower_bound" ELSE "upper_bound",
                 cmp |-> IF inverted THEN "greater_equal" ELSE "less_equal",
                 N |-> Len(x), len |-> Len(x), idx |-> 0, iters |-> 0,
                 reads |-> {}, fpreads |-> {}, ret |-> NaN]
    /\ pc' = "bound"
    /\ UNCHANGED <<fp, rk, dsp, lc>>

(* lower_bound / upper_bound called directly with a comparator of the       *)
(* caller's choice: int len = N; size_t idx = 0.                            *)
CallBound ==
    /\ pc = "idle"
    /\ \E array \in Arrays(0, MaxLen), value \in ValueChoices,
          bound \in {"lower_bound", "upper_bound"}, cmp \in Comparators :
          ss' = [status |-> "running", call |-> bound, x |-> array,
                 value |-> value, bound |-> bound, cmp |-> cmp,
                 N |-> Len(array), len |-> Len(array), idx |-> 0,
                 iters |-> 0, reads |-> {}, fpreads |-> {}, ret |-> NaN]
    /\ pc' = "bound"
    /\ UNCHANGED <<fp, rk, dsp, lc>>

(* The comparator interpolate_z hands to lower_bound. *)
InterpolateZCmpAscending == "less_equal"
InterpolateZCmp == "greater_equal"

(* interpolate_z: lower_bound(xp, size, x, greater_equal). *)
CallInterpolateZ ==
    /\ pc = "idle"
    /\ \E xp \in Arrays(1, MaxLen), x \in ValueChoices :
       \E f \in FpChoices(Len(xp)) :
          ss' = [status |-> "running", call |-> "interpolate_z", x |-> xp,
                 value |-> x, fp |-> f,
                 bound |-> "lower_bound", cmp |-> InterpolateZCmp,
                 N |-> Len(xp), len |-> Len(xp), idx |-> 0, iters |-> 0,
                 reads |-> {}, fpreads |-> {}, ret |-> NaN]
    /\ pc' = "bound"
    /\ UNCHANGED <<fp, rk, dsp, lc>>

(* One pass through the loop body of lower_bound / upper_bound. *)
BoundStep ==
    /\ pc = "bound"
    /\ ss.len > 1
    /\ LET half == ss.len \div 2
           adv == IF ss.bound = "lower_bound"
                  THEN LowerBoundAdvance(ss.x, ss.idx, half, ss.value, ss.cmp)
                  ELSE UpperBoundAdvance(ss.x, ss.idx, half, ss.value, ss.cmp)
       IN  ss' = [ss EXCEPT !.idx = @ + adv, !.len = @ - half,
                            !.iters = @ + 1,
                            !.reads = @ \cup {Probe(ss.idx, half)}]
    /\ pc' = "bound"
    /\ UNCHANGED <<fp, rk, dsp, lc>>

(* The loop ends and search_sorted returns idx. *)
SearchSortedReturn ==
    /\ pc = "bound"
    /\ ~(ss.len > 1)
    /\ ss.call = "search_sorted"
    /\ ss' = [ss EXCEPT !.status = "returned", !.ret = ss.idx]
    /\ pc' = "done"
    /\ UNCHANGED <<fp, rk, dsp, lc>>

(* The loop of a direct lower_bound / upper_bound call ends: return idx. *)
BoundReturn ==
    /\ pc = "bound"
    /\ ~(ss.len > 1)
    /\ ss.call \in {"lower_bound", "upper_bound"}
    /\ ss' = [ss EXCEPT !.status = "returned", !.ret = ss.idx]
    /\ pc' = "done"
    /\ UNCHANGED <<fp, rk, dsp, lc>>

(* The loop ends and interpolate_z goes on with i = idx. *)
InterpolateZFinish ==
    /\ pc = "bound"
    /\ ~(ss.len > 1)
    /\ ss.call = "interpolate_z"
    /\ LET i == ss.idx
       IN  IF i = 0
           THEN ss' = [ss EXCEPT !.status = "returned",
                                 !.ret = At(ss.fp, 0), !.fpreads = {0}]
           ELSE ss' = [ss EXCEPT
                          !.status = "returned",
                          !.ret = linear_interpolate(ss.value,
                                     At(ss.x, i - 1), At(ss.x, i),
                                     At(ss.fp, i - 1), At(ss.fp, i)),
                          !.reads = @ \cup {i - 1, i},
                          !.fpreads = {i - 1, i}]
    /\ pc' = "done"
    /\ UNCHANGED <<fp, rk, dsp, lc>>

-----------------------------------------------------------------------------
(* VectorizedDispatcher: the @cython.ufunc kernels of _ufunc.pyx applied    *)
(* elementwise.  A kernel is a scalar function of the values at one index;  *)
(* its result is kept symbolically as <<name, k, arguments>> for output k.  *)
(* The loop over the index range is fork-join over workers: each index is   *)
(* owned by one worker, which loads the element and then stores the result. *)

(* The floating widths of the fused type T: float and double. *)
Widths == {32, 64}

(* Every floating ufunc kernel with its declared return type: T, or the     *)
(* ctuple (double, double).                                                 *)
Kernels ==
    {[name |-> "wind_direction", nout |-> 1, ret |-> "T"],
     [name |-> "wind_magnitude", nout |-> 1, ret |-> "T"],
     [name |-> "wind_components", nout |-> 2, ret |-> "double"],
     [name |-> "saturation_vapor_pressure", nout |-> 1, ret |-> "T"],
     [name |-> "virtual_temperature", nout |-> 1, ret |-> "T"],
     [name |-> "saturation_mixing_ratio", nout |-> 1, ret |-> "T"],
     [name |-> "dewpoint", nout |-> 1, ret |-> "T"],
     [name |-> "dry_lapse", nout |-> 1, ret |-> "T"],
     [name |-> "potential_temperature", nout |-> 1, ret |-> "T"],
     [name |-> "equivalent_potential_temperature", nout |-> 1, ret |-> "T"],
     [name |-> "wet_bulb_potential_temperature", nout |-> 1, ret |-> "T"],
     [name |-> "wet_bulb_temperature", nout |-> 1, ret |-> "T"],
     [name |-> "lcl_pressure", nout |-> 1, ret |-> "T"],
     [name |-> "lcl", nout |-> 2, ret |-> "double"],
     [name |-> "wobus", nout |-> 1, ret |-> "T"]}

(* The element width of a kernel's output arrays when its inputs are T. *)
OutWidth(kernel, T) == IF kernel.ret = "double" THEN 64 ELSE T

(* The scalar call: every output is a function of the arguments alone. *)
KernelResultStale(kernel, arg) == [k \in 1 .. kernel.nout |-> <<kernel.name, k, 0>>]
KernelResult(kernel, arg) == [k \in 1 .. kernel.nout |-> <<kernel.name, k, arg>>]

Workers == {"w1", "w2"}

(* The values at one index of the input arrays. *)
Elements == {0, 1}

Unset == <<>>
NoWork == [busy |-> FALSE]

DspIdle == [status |-> "idle"]

(* A dispatch call over arrays of length n: the outputs are allocated       *)
(* empty and the index range is partitioned across the workers.             *)
CallDispatch ==
    /\ pc = "idle"
    /\ \E kernel \in Kernels, T \in Widths, n \in 0 .. MaxN :
       \E in \in [1 .. n -> Elements], owner \in [1 .. n -> Workers] :
          dsp' = [status |-> "running", kernel |-> kernel, T |-> T,
                  outT |-> [k \in 1 .. kernel.nout |-> OutWidth(kernel, T)],
                  n |-> n, in |-> in, in0 |-> in, owner |-> owner,
                  st |-> [i \in 1 .. n |-> "todo"],
                  reg |-> [w \in Workers |-> NoWork],
                  out |-> [i \in 1 .. n |-> Unset]]
    /\ pc' = "dispatch"
    /\ UNCHANGED <<fp, rk, ss, lc>>

(* A free worker takes one of its indices and loads that element. *)
WorkerLoad(w) ==
    /\ pc = "dispatch"
    /\ ~dsp.reg[w].busy
    /\ \E i \in 1 .. dsp.n :
          /\ dsp.owner[i] = w
          /\ dsp.st[i] = "todo"
          /\ dsp' = [dsp EXCEPT
                        !.st[i] = "loaded",
                        !.reg[w] = [busy |-> TRUE, i |-> i, arg |-> dsp.in[i]]]
    /\ pc' = "dispatch"
    /\ UNCHANGED <<fp, rk, ss, lc>>

(* The worker calls the kernel and stores the result at its index. *)
WorkerStore(w) ==
    /\ pc = "dispatch"
    /\ dsp.reg[w].busy
    /\ LET i == dsp.reg[w].i
       IN  dsp' = [dsp EXCEPT
                      !.st[i] = "done",
                      !.out[i] = KernelResult(dsp.kernel, dsp.reg[w].arg),
                      !.reg[w] = NoWork]
    /\ pc' = "dispatch"
    /\ UNCHANGED <<fp, rk, ss, lc>>

(* Join: every index is done and the call returns its outputs. *)
DispatchReturn ==
    /\ pc = "dispatch"
    /\ \A i \in 1 .. dsp.n : dsp.st[i] = "done"
    /\ dsp' = [dsp EXCEPT !.status = "returned"]
    /\ pc' = "done"
    /\ UNCHANGED <<fp, rk, ss, lc>>

-----------------------------------------------------------------------------

-----------------------------------------------------------------------------
(* CompositeSolvers: namespace nzt of _ufunc.pyx, the LCL.                  *)

T0 == Rat(27315, 100)
E0 == Rat(61121, 100)
(* epsilon = Rd / Rv = 0.6219569..., kept to three digits *)
epsilon == Rat(311, 500)

(* exp at x: exact at 0 and at the special values; elsewhere a value of    *)
(* (0, 1) for x < 0 and of (1, inf) for x > 0.                              *)
ExpCandidates(x) ==
    IF IsNaN(x) THEN {NaN}
    ELSE IF x = NegInf THEN {Zero}
    ELSE IF x = PosInf THEN {PosInf}
    ELSE IF x = Zero THEN {Num(1)}
    ELSE IF Lt(x, Zero) THEN {Rat(1, 2), Rat(1, 4)}
    ELSE {Num(2), Num(4)}

(* log at x: NaN below 0, -inf at 0, 0 at 1; elsewhere a negative value    *)
(* on (0, 1) and a positive one on (1, inf), 17.67 among them.              *)
LogCandidates(x) ==
    IF IsNaN(x) THEN {NaN}
    ELSE IF Lt(x, Zero) THEN {NaN}
    ELSE IF x = Zero THEN {NegInf}
    ELSE IF x = PosInf THEN {PosInf}
    ELSE IF x = Num(1) THEN {Zero}
    ELSE IF Lt(x, Num(1)) THEN {Num(-1), Num(-2)}
    ELSE {Num(1), Rat(1767, 100)}

(* pow(x, 1.0 / (Rd / Cpd)), a positive non-integer exponent (3.5): NaN    *)
(* for a negative finite base, +inf at both infinities, exact at 0 and 1;   *)
(* elsewhere a value of (0, 1) for x < 1 and of (1, inf) for x > 1.         *)
PowCandidates(x) ==
    IF IsNaN(x) THEN {NaN}
    ELSE IF x = NegInf \/ x = PosInf THEN {PosInf}
    ELSE IF Lt(x, Zero) THEN {NaN}
    ELSE IF x = Zero THEN {Zero}
    ELSE IF x = Num(1) THEN {Num(1)}
    ELSE IF Lt(x, Num(1)) THEN {Rat(1, 2), Rat(1, 4)}
    ELSE {Num(2), Num(4)}

LibmCandidates(f, x) ==
    CASE f = "exp" -> ExpCandidates(x)
      [] f = "log" -> LogCandidates(x)
      [] f = "pow" -> PowCandidates(x)

(* The values f may return at x in a run that has already seen the         *)
(* evaluations of memo: a function returns the same value at the same       *)
(* argument every time.                                                     *)
LibmValues(memo, f, x) ==
    IF \E t \in memo : t[1] = f /\ t[2] = x
    THEN {t[3] : t \in {u \in memo : u[1] = f /\ u[2] = x}}
    ELSE LibmCandidates(f, x)

(* epsilon * partial_press / (total_press - partial_press) *)
mixing_ratio(partial_press, total_press) ==
    Div(Mul(epsilon, partial_press), Sub(total_press, partial_press))

(* The argument of exp in saturation_vapor_pressure:                        *)
(* 17.67 * (temperature - T0) / (temperature - 29.65)                       *)
SaturationExponent(temperature) ==
    Div(Mul(Rat(1767, 100), Sub(temperature, T0)),
        Sub(temperature, Rat(2965, 100)))

(* saturation_vapor_pressure: E0 * exp(...), given the value of exp *)
saturation_vapor_pressure(expv) == Mul(E0, expv)

(* pressure * mixing_ratio / (epsilon + mixing_ratio) *)
vapor_pressure(pressure, r) ==
    Div(Mul(pressure, r), Add(epsilon, r))

(* The argument of log in dewpoint: vapor_pressure / E0 *)
DewpointLogArg(pressure, r) == Div(vapor_pressure(pressure, r), E0)

(* dewpoint: T0 + 243.5 * ln / (17.67 - ln), given ln *)
dewpoint(ln) ==
    Add(T0, Div(Mul(Rat(2435, 10), ln), Sub(Rat(1767, 100), ln)))

(* lcl_solver without its guard on the rescaled pressure. *)
LclSolverUnguarded(p, pressure) == p

(* lcl_solver: return std::isnan(p) ? pressure : p *)
LclSolverReturn(p, pressure) == IF IsNaN(p) THEN pressure ELSE p

(* lcl_solver, given the values ln of log and pw of pow:                    *)
(* td = dewpoint(pressure, mixing_ratio);                                   *)
(* p = reference_pressure * pow(td / temperature, 1.0 / (Rd / Cpd))         *)
LclSolverBase(ln, temperature) == Div(dewpoint(ln), temperature)

lcl_solver(pressure, reference_pressure, pw) ==
    LclSolverReturn(Mul(reference_pressure, pw), pressure)

(* One evaluation of lcl_solver as a record of what went in and out. *)
LclEvaluation(pressure, reference_pressure, temperature, r, ln, pw) ==
    [pressure |-> pressure, reference_pressure |-> reference_pressure,
     temperature |-> temperature, mixing_ratio |-> r,
     td |-> dewpoint(ln), p |-> Mul(reference_pressure, pw),
     ret |-> lcl_solver(pressure, reference_pressure, pw)]

(* lcl evaluated at the surface pressure instead of the LCL pressure. *)
LclDewpointPressureSurface(lcl_p, pressure) == pressure

(* lcl: lcl_t = dewpoint(lcl_p, r) *)
LclDewpointPressure(lcl_p, pressure) == lcl_p

PressureChoices == {Num(1000), Num(2000), Num(500), Zero, Num(-1000), NaN}
TemperatureChoices == {T0, Num(300), Zero, NaN}
DewpointChoices == {T0, Num(300), Num(250), Rat(2965, 100), NaN}
MixingRatioChoices == {epsilon, Neg(epsilon), Zero, PosInf, NaN}
LclEpsChoices == {Rat(1, 10), Zero}

LcIdle == [status |-> "idle"]

(* A direct call of lcl_solver. *)
CallLclSolver ==
    /\ pc = "idle"
    /\ \E pressure \in PressureChoices, reference_pressure \in PressureChoices,
          temperature \in TemperatureChoices, r \in MixingRatioChoices :
       \E ln \in LibmValues({}, "log", DewpointLogArg(pressure, r)) :
       \E pw \in LibmValues({}, "pow", LclSolverBase(ln, temperature)) :
          lc' = [status |-> "returned", call |-> "lcl_solver",
                 ev |-> LclEvaluation(pressure, reference_pressure,
                                      temperature, r, ln, pw),
                 evals |-> 1]
    /\ pc' = "done"
    /\ UNCHANGED <<fp, rk, ss, dsp>>

(* The state both lcl_pressure and lcl start from:                          *)
(* r = mixing_ratio(saturation_vapor_pressure(dewpoint), pressure), then    *)
(* fixed_point(lcl_solver, pressure, temperature, r, eps, max_iters)        *)
(* with p0 = x0.                                                            *)
LclStart(call, pressure, temperature, dewpt, eps, max_iters, memo, expv, earlier) ==
    [status |-> "running", call |-> call, pressure |-> pressure,
     temperature |-> temperature, dewpoint |-> dewpt, eps |-> eps,
     max_iters |-> max_iters,
     r |-> mixing_ratio(saturation_vapor_pressure(expv), pressure),
     p0 |-> pressure, p1 |-> NaN, i |-> 0, stage |-> 1, evals |-> 0,
     libm |-> memo \cup {<<"exp", SaturationExponent(dewpt), expv>>},
     ev |-> [pressure |-> Zero, ret |-> Zero, p |-> Zero],
     fixed |-> "running", lcl_p |-> NaN, lcl_t |-> NaN,
     earlier |-> earlier]

CallLclPressure ==
    /\ pc = "idle"
    /\ \E pressure \in PressureChoices, temperature \in TemperatureChoices,
          dewpt \in DewpointChoices, eps \in LclEpsChoices,
          max_iters \in 0 .. MaxLclIters :
       \E expv \in LibmValues({}, "exp", SaturationExponent(dewpt)) :
          lc' = LclStart("lcl_pressure", pressure, temperature, dewpt, eps,
                         max_iters, {}, expv, <<>>)
    /\ pc' = "lcl"
    /\ UNCHANGED <<fp, rk, ss, dsp>>

(* lcl, called first or after lcl_pressure has returned for the same        *)
(* inputs (libm being the same functions in both calls).                    *)
CallLcl ==
    /\ \/ /\ pc = "idle"
          /\ \E pressure \in PressureChoices,
                temperature \in TemperatureChoices,
                dewpt \in DewpointChoices, eps \in LclEpsChoices,
                max_iters \in 0 .. MaxLclIters :
             \E expv \in LibmValues({}, "exp", SaturationExponent(dewpt)) :
                lc' = LclStart("lcl", pressure, temperature, dewpt, eps,
                               max_iters, {}, expv, <<>>)
       \/ /\ pc = "done"
          /\ lc.status = "returned"
          /\ lc.call = "lcl_pressure"
          /\ \E expv \in LibmValues(lc.libm, "exp",
                                    SaturationExponent(lc.dewpoint)) :
                lc' = LclStart("lcl", lc.pressure, lc.temperature,
                               lc.dewpoint, lc.eps, lc.max_iters, lc.libm,
                               expv, <<lc.lcl_p>>)
    /\ pc' = "lcl"
    /\ UNCHANGED <<fp, rk, ss, dsp>>

(* fixed_point, first half of the loop body: p1 = fn(p0, x0, x1, x2) *)
LclEvalFirst ==
    /\ pc = "lcl"
    /\ lc.stage = 1
    /\ FixedPointLoopCond(lc.i, lc.max_iters)
    /\ \E ln \in LibmValues(lc.libm, "log", DewpointLogArg(lc.p0, lc.r)) :
       \E pw \in LibmValues(lc.libm, "pow",
                            LclSolverBase(ln, lc.temperature)) :
          lc' = [lc EXCEPT
                   !.p1 = lcl_solver(lc.p0, lc.pressure, pw),
                   !.stage = 2,
                   !.evals = @ + 1,
                   !.ev = LclEvaluation(lc.p0, lc.pressure, lc.temperature,
                                        lc.r, ln, pw),
                   !.libm = @ \cup
                      {<<"log", DewpointLogArg(lc.p0, lc.r), ln>>,
                       <<"pow", LclSolverBase(ln, lc.temperature), pw>>}]
    /\ pc' = "lcl"
    /\ UNCHANGED <<fp, rk, ss, dsp>>

(* fixed_point, second half of the loop body: p2 = fn(p1, x0, x1, x2), the  *)
(* accelerated estimate, the convergence test, and either return p2 or      *)
(* p0 = p2, i++.                                                            *)
LclEvalSecond ==
    /\ pc = "lcl"
    /\ lc.stage = 2
    /\ \E ln \in LibmValues(lc.libm, "log", DewpointLogArg(lc.p1, lc.r)) :
       \E pw \in LibmValues(lc.libm, "pow",
                            LclSolverBase(ln, lc.temperature)) :
          LET q2 == lcl_solver(lc.p1, lc.pressure, pw)
              p2 == Accelerate(lc.p0, lc.p1, q2)
              err == FixedPointErr(lc.p0, p2)
              seen == [lc EXCEPT
                         !.evals = @ + 1,
                         !.ev = LclEvaluation(lc.p1, lc.pressure,
                                              lc.temperature, lc.r, ln, pw),
                         !.libm = @ \cup
                            {<<"log", DewpointLogArg(lc.p1, lc.r), ln>>,
                             <<"pow", LclSolverBase(ln, lc.temperature),
                               pw>>}]
          IN  IF Converged(err, lc.eps)
              THEN /\ lc' = [seen EXCEPT !.lcl_p = p2, !.stage = 0,
                                         !.fixed = "converged"]
                   /\ pc' = "lcl_tail"
              ELSE /\ lc' = [seen EXCEPT !.p0 = p2, !.i = @ + 1,
                                         !.stage = 1]
                   /\ pc' = "lcl"
    /\ UNCHANGED <<fp, rk, ss, dsp>>

(* fixed_point: the loop condition fails, return quiet_NaN. *)
LclExhaust ==
    /\ pc = "lcl"
    /\ lc.stage = 1
    /\ ~FixedPointLoopCond(lc.i, lc.max_iters)
    /\ lc' = [lc EXCEPT !.lcl_p = NaN, !.stage = 0, !.fixed = "exhausted"]
    /\ pc' = "lcl_tail"
    /\ UNCHANGED <<fp, rk, ss, dsp>>

(* lcl_pressure returns what fixed_point returned. *)
LclPressureReturn ==
    /\ pc = "lcl_tail"
    /\ lc.call = "lcl_pressure"
    /\ lc' = [lc EXCEPT !.status = "returned"]
    /\ pc' = "done"
    /\ UNCHANGED <<fp, rk, ss, dsp>>

(* lcl: lcl_t = dewpoint(lcl_p, r); return make_pair(lcl_p, lcl_t) *)
LclReturn ==
    /\ pc = "lcl_tail"
    /\ lc.call = "lcl"
    /\ LET at == LclDewpointPressure(lc.lcl_p, lc.pressure)
       IN  \E ln \in LibmValues(lc.libm, "log", DewpointLogArg(at, lc.r)) :
              lc' = [lc EXCEPT
                       !.status = "returned",
                       !.lcl_t = dewpoint(ln),
                       !.libm = @ \cup
                          {<<"log", DewpointLogArg(at, lc.r), ln>>}]
    /\ pc' = "done"
    /\ UNCHANGED <<fp, rk, ss, dsp>>

-----------------------------------------------------------------------------
Init ==
    /\ pc = "idle"
    /\ fp = FpIdle
    /\ rk = RkIdle
    /\ ss = SsIdle
    /\ dsp = DspIdle
    /\ lc = LcIdle

Next ==
    \/ CallFixedPoint
    \/ FixedPointIterate
    \/ FixedPointExhaust
    \/ CallRk2
    \/ Rk2Substep
    \/ Rk2Return
    \/ CallMonotonic
    \/ CallSearchSorted
    \/ CallInterpolateZ
    \/ CallBound
    \/ BoundStep
    \/ SearchSortedReturn
    \/ BoundReturn
    \/ InterpolateZFinish
    \/ CallDispatch
    \/ \E w \in Workers : WorkerLoad(w)
    \/ \E w \in Workers : WorkerStore(w)
    \/ DispatchReturn
    \/ CallLclSolver
    \/ CallLclPressure
    \/ CallLcl
    \/ LclEvalFirst
    \/ LclEvalSecond
    \/ LclExhaust
    \/ LclPressureReturn
    \/ LclReturn

Spec == Init /\ [][Next]_vars

-----------------------------------------------------------------------------
(* Properties of fixed_point. *)

(* C1: fixed_point never loops unboundedly.  In every state of a call the   *)
(* number of loop iterations is at most max_iters and the number of         *)
(* evaluations of the update function is twice the number of iterations;    *)
(* while the call runs no iteration has satisfied the convergence test and  *)
(* the loop counter equals the number of iterations made; the call ends     *)
(* either in an iteration that satisfied the test or, when none did, by     *)
(* returning NaN after exactly max_iters iterations (max_iters = 0 and      *)
(* NaN-valued update functions included).                                   *)
C1_FixedPointBounded ==
    fp.status # "idle" =>
        /\ fp.iters <= fp.max_iters
        /\ fp.evals = 2 * fp.iters
        /\ fp.evals <= 2 * fp.max_iters
        /\ fp.status = "running" =>
              /\ pc = "fixed_point"
              /\ fp.iters = fp.i
              /\ fp.iterated =>
                    ~Converged(FixedPointErr(fp.itP0, fp.itP2), fp.eps)
        /\ fp.status = "converged" =>
              /\ pc = "done"
              /\ Converged(FixedPointErr(fp.itP0, fp.itP2), fp.eps)
              /\ fp.ret = fp.itP2
        /\ fp.status = "exhausted" =>
              /\ pc = "done"
              /\ IsNaN(fp.ret)
              /\ fp.iters = fp.max_iters
              /\ fp.iterated =>
                    ~Converged(FixedPointErr(fp.itP0, fp.itP2), fp.eps)

(* A call whose update function returns NaN has run out of max_iters >= 1  *)
(* iterations and returned NaN.                                             *)
C1_Witness ==
    /\ fp.status = "exhausted"
    /\ fp.fn.kind = "nan"
    /\ fp.max_iters = MaxIters
    /\ fp.iters = MaxIters
    /\ IsNaN(fp.ret)

(* C9 (as claimed): in an iteration with p0 = 0, fixed_point returns p2 in  *)
(* that iteration if and only if |p2| < eps; stated for a positive          *)
(* tolerance eps, where a p2 <= -eps must not count as converged.           *)
C9_AbsoluteErrorAtZero ==
    (fp.status # "idle" /\ fp.iterated /\ fp.itP0 = Zero
        /\ Lt(Zero, fp.eps)) =>
        ((fp.status = "converged") <=> Lt(Abs(fp.itP2), fp.eps))

-----------------------------------------------------------------------------
(* Properties of rk2. *)

(* C10: with step > 0, rk2 takes N substeps, N being the least integer      *)
(* n >= 1 with n * step >= |x1 - x0| (that is ceil(|x1 - x0| / step) when   *)
(* |x1 - x0| > step and 1 otherwise); every substep has the signed size     *)
(* delta = (x1 - x0) / N, evaluates the rate function exactly twice, at     *)
(* (x, y) and at (x + delta/2, y + k1/2) with k1 = delta * fn(x, y), and    *)
(* advances x by delta and y by delta times the second evaluation; on       *)
(* return N substeps and 2N evaluations were made and x has reached x1.     *)
C10_Rk2Substeps ==
    rk.status # "idle" =>
        LET span == Abs(Sub(rk.x1, rk.x0))
            px == rk.prev[1]
            py == rk.prev[2]
            k1 == Mul(rk.delta, ApplyRate(rk.fn, px, py))
            mx == Add(px, Div(rk.delta, Num(2)))
            my == Add(py, Div(k1, Num(2)))
        IN  /\ rk.N >= 1
            /\ Ge(Mul(Num(rk.N), rk.step), span)
            /\ rk.N > 1 => Lt(Mul(Num(rk.N - 1), rk.step), span)
            /\ rk.delta = Div(Sub(rk.x1, rk.x0), Num(rk.N))
            /\ rk.i <= rk.N
            /\ Len(rk.evals) = 2 * rk.i
            /\ rk.x = Add(rk.x0, Mul(Num(rk.i), rk.delta))
            /\ rk.i > 0 =>
                  /\ rk.evals[2 * rk.i - 1] = <<px, py>>
                  /\ rk.evals[2 * rk.i] = <<mx, my>>
                  /\ rk.x = Add(px, rk.delta)
                  /\ rk.y = Add(py, Mul(rk.delta, ApplyRate(rk.fn, mx, my)))
            /\ rk.status = "running" => pc = "rk2"
            /\ rk.status = "returned" =>
                  /\ pc = "done"
                  /\ rk.i = rk.N
                  /\ Len(rk.evals) = 2 * rk.N
                  /\ rk.x = rk.x1

(* A returned call that went backwards in three or more substeps of a       *)
(* fractional size, with a rate that depends on x.                          *)
C10_Witness ==
    /\ rk.status = "returned"
    /\ rk.fn.kind = "x"
    /\ rk.N >= 3
    /\ Lt(rk.delta, Zero)
    /\ rk.delta[2] # 1
    /\ rk.x = rk.x1
    /\ Len(rk.evals) = 2 * rk.N

-----------------------------------------------------------------------------
(* Properties of the profile helpers. *)

(* A profile whose neighbours are ordered; every element is a number. *)
Ascending(x) ==
    /\ \A k \in 1 .. Len(x) : ~IsNaN(x[k])
    /\ \A k \in 1 .. Len(x) - 1 : Le(x[k], x[k + 1])

Descending(x) ==
    /\ \A k \in 1 .. Len(x) : ~IsNaN(x[k])
    /\ \A k \in 1 .. Len(x) - 1 : Ge(x[k], x[k + 1])

(* The first index in 0 .. N whose element is not less than value. *)
FirstNotLess(x, value) ==
    CHOOSE i \in 0 .. Len(x) :
        /\ i = Len(x) \/ ~Lt(At(x, i), value)
        /\ \A j \in 0 .. i - 1 : Lt(At(x, j), value)

Between(a, x, b) == (Le(a, x) /\ Le(x, b)) \/ (Le(b, x) /\ Le(x, a))

(* C2 (as claimed): search_sorted with inverted = false on an ascending     *)
(* profile of length N returns, for every value, the first index in 0 .. N  *)
(* whose element is not less than value: 0 below every element and the      *)
(* past-end index N above every element.                                    *)
C2_SearchSortedFirstNotLess ==
    (ss.status = "returned" /\ ss.call = "search_sorted" /\ ~ss.inverted
        /\ Ascending(ss.x) /\ ~IsNaN(ss.value)) =>
        ss.ret = FirstNotLess(ss.x, ss.value)

(* C3 (as claimed): monotonic returns true if and only if x[i] >= x[i-1]    *)
(* for all 1 <= i < size (increasing), resp. x[i] <= x[i-1] (decreasing).   *)
C3_MonotonicOrderedPairs ==
    (ss.status = "returned" /\ ss.call = "monotonic") =>
        (ss.ret <=>
            \A i \in 1 .. Len(ss.x) - 1 :
                IF ss.direction = "increasing"
                THEN Ge(At(ss.x, i), At(ss.x, i - 1))
                ELSE Le(At(ss.x, i), At(ss.x, i - 1)))

(* C3 (amended): monotonic returns true if and only if no adjacent pair is  *)
(* strictly out of order: no 1 <= i < size with x[i] < x[i-1] (increasing), *)
(* resp. x[i] > x[i-1] (decreasing).  Equal neighbours are accepted, sizes  *)
(* 0 and 1 are always monotonic, and a pair holding a NaN is no violation.  *)
C3_MonotonicNoStrictViolation ==
    (ss.status = "returned" /\ ss.call = "monotonic") =>
        (ss.ret <=>
            ~\E i \in 1 .. Len(ss.x) - 1 :
                IF ss.direction = "increasing"
                THEN Lt(At(ss.x, i), At(ss.x, i - 1))
                ELSE Gt(At(ss.x, i), At(ss.x, i - 1)))

(* monotonic([0, 1, 1, 2], increasing) returned true. *)
C3_Witness ==
    /\ ss.status = "returned"
    /\ ss.call = "monotonic"
    /\ ss.direction = "increasing"
    /\ ss.x = <<Num(0), Num(1), Num(1), Num(2)>>
    /\ ss.ret = TRUE

(* C4 (as claimed): on a monotonic profile xp (ascending or descending) of  *)
(* length >= 2, interpolate_z returns fp[0] whenever the located index is   *)
(* 0, and for every x inside the range spanned by xp with a located index   *)
(* i > 0 it returns the linear interpolation between the adjacent knots     *)
(* (xp[i-1], xp[i]), which bracket x.                                       *)
C4_InterpolateBracketsMonotonic ==
    (ss.status = "returned" /\ ss.call = "interpolate_z" /\ ss.N >= 2
        /\ (Ascending(ss.x) \/ Descending(ss.x))) =>
        LET i == ss.idx
        IN  /\ i = 0 => ss.ret = At(ss.fp, 0)
            /\ (i > 0 /\ Between(At(ss.x, 0), ss.value, At(ss.x, ss.N - 1))) =>
                  /\ Between(At(ss.x, i - 1), ss.value, At(ss.x, i))
                  /\ ss.ret = linear_interpolate(ss.value,
                                 At(ss.x, i - 1), At(ss.x, i),
                                 At(ss.fp, i - 1), At(ss.fp, i))

(* C4 (amended): on a descending (non-increasing) profile xp of length      *)
(* >= 2, interpolate_z locates index 0 exactly when xp[0] >= x is false (x  *)
(* before the first knot, or x NaN) and then returns fp[0]; for every x     *)
(* inside the range spanned by xp the located index i is positive, the      *)
(* adjacent knots bracket x (xp[i-1] >= x >= xp[i]) and the result is       *)
(* their linear interpolation.                                              *)
C4_InterpolateBracketsDescending ==
    (ss.status = "returned" /\ ss.call = "interpolate_z" /\ ss.N >= 2
        /\ Descending(ss.x)) =>
        LET i == ss.idx
        IN  /\ i = 0 <=> ~Ge(At(ss.x, 0), ss.value)
            /\ i = 0 => ss.ret = At(ss.fp, 0)
            /\ Between(At(ss.x, 0), ss.value, At(ss.x, ss.N - 1)) =>
                  /\ i > 0
                  /\ Ge(At(ss.x, i - 1), ss.value)
                  /\ Ge(ss.value, At(ss.x, i))
                  /\ ss.ret = linear_interpolate(ss.value,
                                 At(ss.x, i - 1), At(ss.x, i),
                                 At(ss.fp, i - 1), At(ss.fp, i))

(* interpolate_z(3, 1/2, [2, 1, 0], [0, 1, 2]) located index 2 and returned *)
(* 3/2, half way between fp[1] and fp[2].                                   *)
C4_Witness ==
    /\ ss.status = "returned"
    /\ ss.call = "interpolate_z"
    /\ ss.x = <<Num(2), Num(1), Num(0)>>
    /\ ss.fp = <<Num(0), Num(1), Num(2)>>
    /\ ss.value = Rat(1, 2)
    /\ ss.idx = 2
    /\ ss.ret = Rat(3, 2)

-----------------------------------------------------------------------------
(* Properties of the elementwise dispatch. *)

(* C5: elementwise dispatch is race-free and schedule-independent.  For     *)
(* every length n (0 and 1 included), partition and interleaving: the       *)
(* inputs are never written; a worker holds only an index it owns, no two   *)
(* workers hold the same index, and what it loaded is input element i; an   *)
(* output slot is unset until its index is done and then holds the scalar   *)
(* result for that index's inputs; on return every slot holds what n        *)
(* sequential scalar calls give, and n = 0 returns empty outputs.           *)
C5_DispatchRaceFree ==
    dsp.status # "idle" =>
        /\ dsp.in = dsp.in0
        /\ \A w \in Workers :
              dsp.reg[w].busy =>
                  /\ dsp.reg[w].i \in 1 .. dsp.n
                  /\ dsp.owner[dsp.reg[w].i] = w
                  /\ dsp.st[dsp.reg[w].i] = "loaded"
                  /\ dsp.reg[w].arg = dsp.in0[dsp.reg[w].i]
        /\ \A v, w \in Workers :
              (v # w /\ dsp.reg[v].busy /\ dsp.reg[w].busy) =>
                  dsp.reg[v].i # dsp.reg[w].i
        /\ Len(dsp.out) = dsp.n
        /\ \A i \in 1 .. dsp.n :
              IF dsp.st[i] = "done"
              THEN dsp.out[i] =
                      [k \in 1 .. dsp.kernel.nout |->
                          <<dsp.kernel.name, k, dsp.in0[i]>>]
              ELSE dsp.out[i] = Unset
        /\ dsp.status = "returned" =>
              \A i \in 1 .. dsp.n : dsp.st[i] = "done"

(* A returned call over two elements with different inputs, one index per   *)
(* worker, each slot holding the result for its own element.                *)
C5_Witness ==
    /\ dsp.status = "returned"
    /\ dsp.n = 2
    /\ dsp.in0 = <<0, 1>>
    /\ dsp.owner = <<"w2", "w1">>
    /\ dsp.kernel.name = "wet_bulb_temperature"
    /\ dsp.out = << <<<<"wet_bulb_temperature", 1, 0>>>>,
                    <<<<"wet_bulb_temperature", 1, 1>>>> >>

(* C6 (as claimed): every output array of a dispatch call has the floating  *)
(* width of its inputs, for every kernel, lcl and wind_components included. *)
C6_MonomorphicPrecision ==
    dsp.status # "idle" =>
        \A k \in 1 .. dsp.kernel.nout : dsp.outT[k] = dsp.T

-----------------------------------------------------------------------------
(* C13: the branchless searches stay inside the array.                      *)

(* ceil(log2 n) for n >= 1 *)
RECURSIVE CeilLog2(_)
CeilLog2(n) == IF n <= 1 THEN 0 ELSE 1 + CeilLog2((n + 1) \div 2)

(* C13: in lower_bound and upper_bound over an array of length N >= 1,      *)
(* with any value and any comparator, idx + len <= N holds at every pass    *)
(* of the loop, every position read is in 0..N-1, the loop makes at most    *)
(* ceil(log2 N) passes and the index returned is in 0..N-1 (never N); so    *)
(* interpolate_z with size >= 2 reads xp and fp only at 0..size-1.          *)
C13_BoundsStayInside ==
    (ss.status # "idle" /\ ss.call # "monotonic" /\ ss.N >= 1) =>
        /\ ss.idx + ss.len <= ss.N
        /\ ss.len >= 1
        /\ ss.reads \subseteq 0 .. ss.N - 1
        /\ ss.iters <= CeilLog2(ss.N)
        /\ ss.status = "returned" =>
              /\ ss.idx \in 0 .. ss.N - 1
              /\ ss.iters = CeilLog2(ss.N)
              /\ ss.call # "interpolate_z" => ss.ret = ss.idx
              /\ (ss.call = "interpolate_z" /\ ss.N >= 2) =>
                    /\ ss.fpreads \subseteq 0 .. ss.N - 1
                    /\ ss.fpreads # {}

(* A lower_bound over four elements with std::less has advanced on both    *)
(* passes, read positions 1 and 2 and returned the last position, 3; and   *)
(* the same state shape is what interpolate_z relies on.                    *)
C13_Witness ==
    /\ ss.status = "returned"
    /\ ss.call = "lower_bound"
    /\ ss.cmp = "less"
    /\ ss.N = MaxLen
    /\ ss.iters = CeilLog2(MaxLen)
    /\ ss.idx = ss.N - 1
    /\ ss.ret = ss.N - 1
    /\ Cardinality(ss.reads) = ss.iters

-----------------------------------------------------------------------------
(* C11: lcl_solver falls back to the trial pressure.                        *)

(* C11: in every evaluation of lcl_solver, called directly or by the        *)
(* fixed-point iteration of lcl_pressure / lcl, a rescaled pressure p that  *)
(* is NaN makes it return the unmodified trial pressure, any other p is     *)
(* returned as it is, and so a non-NaN trial pressure never gives NaN.      *)
C11_LclSolverFallsBack ==
    (lc.status # "idle" /\ lc.evals >= 1) =>
        /\ IsNaN(lc.ev.p) => lc.ev.ret = lc.ev.pressure
        /\ ~IsNaN(lc.ev.p) => lc.ev.ret = lc.ev.p
        /\ ~IsNaN(lc.ev.pressure) => ~IsNaN(lc.ev.ret)

(* During the iteration of lcl_pressure, with finite inputs, a trial        *)
(* pressure left the domain of the dewpoint formula: the trial dewpoint     *)
(* and the rescaled pressure are NaN and the trial pressure came back.      *)
C11_Witness ==
    /\ lc.status # "idle"
    /\ lc.call = "lcl_pressure"
    /\ lc.evals >= 2
    /\ IsFinite(lc.pressure) /\ Gt(lc.pressure, Zero)
    /\ IsFinite(lc.temperature) /\ Gt(lc.temperature, Zero)
    /\ IsFinite(lc.dewpoint) /\ IsFinite(lc.r)
    /\ IsFinite(lc.ev.pressure)
    /\ lc.ev.pressure # lc.pressure
    /\ IsNaN(lc.ev.td)
    /\ IsNaN(lc.ev.p)
    /\ lc.ev.ret = lc.ev.pressure

-----------------------------------------------------------------------------
(* C12: lcl is lcl_pressure followed by dewpoint.                           *)

(* The values f took at x in this run. *)
LibmAt(memo, f, x) == {t[3] : t \in {u \in memo : u[1] = f /\ u[2] = x}}

(* Every libm function took one value per argument. *)
LibmFunctional(memo) ==
    \A t, u \in memo : (t[1] = u[1] /\ t[2] = u[2]) => t[3] = u[3]

=============================================================================
